---- MODULE Spec2Model ----
(***************************************************************************)
(* Surgery scheduling with overtime penalties: the model builder           *)
(* (SurgeryScheduler), the constraint system it generates, the external    *)
(* solver as a nondeterministic choice of any assignment satisfying that   *)
(* system, and the solver-free feasibility analyzer                        *)
(* (check_instance_feasibility).                                           *)
(*                                                                         *)
(* Numbers.  Times and durations are whole time units (the floor of the    *)
(* real value).  Probabilities (alpha, epsilon) are whole percents:        *)
(* alpha = 0.10 is 10, alpha >= 1.0 is >= 100.  Natural logarithms are in   *)
(* units of 1e-5, read from the table LnTable.                             *)
(***************************************************************************)
EXTENDS Integers, Sequences, FiniteSets, TLC

VARIABLES
    inp,        \* the caller's inputs: instance, alpha_choices, epsilon, overtime caps
    pc,         \* position of the caller of the scheduler
    durations,  \* SurgeryScheduler.durations
    model,      \* SurgeryScheduler.model
    results,    \* SurgeryScheduler.results
    sol,        \* the values the solver loaded into the model's variables
    fa_pc,      \* position inside check_instance_feasibility
    fa,         \* locals / result of check_instance_feasibility
    probe,      \* inputs and outputs of the buffered-duration formula on its own
    solver_calls, \* how many times solve() has called the external solver
    analyzer,   \* ResultsAnalyzer: schedule, idle_time, overtime_info
    rel_check,  \* what verify_reliability returned last
    outcome,    \* what main reports after the solve
    solve_time  \* SurgeryScheduler.solve_time

vars == <<inp, pc, durations, model, results, sol, fa_pc, fa, probe,
          solver_calls, analyzer, rel_check, outcome, solve_time>>

\* the state of the caller after the solve
post == <<solver_calls, analyzer, rel_check, outcome, solve_time>>

-----------------------------------------------------------------------------
(* Generic helpers *)

None == [tag |-> "None"]

RECURSIVE SumF(_, _)
SumF(f, S) ==
    IF S = {} THEN 0
    ELSE LET x == CHOOSE y \in S : TRUE
         IN  f[x] + SumF(f, S \ {x})

MaxOf(S) == CHOOSE x \in S : \A y \in S : y <= x
MinOf(S) == CHOOSE x \in S : \A y \in S : x <= y

\* floor(sqrt(n)) for n >= 0
ISqrt(n) == CHOOSE r \in 0..n : r * r <= n /\ (r + 1) * (r + 1) > n

\* float('inf'): larger than every finite quantity of the model
Inf == 1000000

\* math.log(1 - p/100) in units of 1e-5, for the probabilities the model uses
LnTable ==
    [p \in {0, 1, 10, 20, 25, 50, 80, 90} |->
        CASE p = 0  -> 0
          [] p = 1  -> -1005
          [] p = 10 -> -10536
          [] p = 20 -> -22314
          [] p = 25 -> -28768
          [] p = 50 -> -69315
          [] p = 80 -> -160944
          [] p = 90 -> -230259]

\* math.log raises ValueError (math domain error) for an argument <= 0
LogRaises(p) == p >= 100
LogOneMinus(p) == LnTable[p]


-----------------------------------------------------------------------------
(* The inputs the model is run on.  instance['surgeries'], ['days'],       *)
(* ['rooms'] and ['doctors'] are lists of records with an 'id'; they are    *)
(* functions from the id to the rest of the record here.                   *)

EmptyMap == [x \in {} |-> 0]

\* a surgery with a single instance-level (mean, std)
FlatSurgery(mu, sigma, spec) ==
    [has_mu_sigma |-> FALSE, mu_sigma |-> EmptyMap,
     has_duration_mean |-> TRUE, duration_mean |-> mu, duration_std |-> sigma,
     specialty |-> spec]

\* a surgery with a per-(room, doctor) mapping to (mean, std)
MappedSurgery(f) ==
    [has_mu_sigma |-> TRUE, mu_sigma |-> f,
     has_duration_mean |-> FALSE, duration_mean |-> 0, duration_std |-> 0,
     specialty |-> ""]

\* a doctor's 'daily_capacity': the key absent, a dict day -> capacity, or a plain number
CapAbsent == [kind |-> "absent", map |-> EmptyMap]
CapDict(f) == [kind |-> "dict", map |-> f]
CapScalar == [kind |-> "scalar", map |-> EmptyMap]

\* "one": one surgery, day, room and doctor; the others add a second room, day or doctor
Shapes == {"one", "rooms", "days", "docs"}
DayIds(sh) == IF sh = "days" THEN {1, 2} ELSE {1}
RoomIds(sh) == IF sh = "rooms" THEN {1, 2} ELSE {1}
DocIds(sh) == IF sh = "docs" THEN {1, 2} ELSE {1}
\* two surgeries, one in the two-day instances
SurgeryIds(sh) == IF sh \in {"one", "days"} THEN {1} ELSE {1, 2}

\* regular hours H of every day with the overtime caps (max_ot_room, max_ot_doc)
HoursAndCaps(sh) ==
    IF sh = "days" THEN {[H |-> 1, room |-> 0, doc |-> 0]}
    ELSE IF sh = "one" THEN {[H |-> 0, room |-> 1, doc |-> 1], [H |-> 1, room |-> 1, doc |-> 1],
                             [H |-> 2, room |-> 1, doc |-> 1], [H |-> 1, room |-> 3, doc |-> 1]}
    ELSE {[H |-> 2, room |-> 0, doc |-> 0], [H |-> 1, room |-> 1, doc |-> 1]}

\* capacities a doctor's mapping may hold for a day
CapChoices == {0, 1, 2}

\* the capacity records the last doctor of an instance may have; the others
\* have a full mapping to the day's regular hours
CapSpecs(D) ==
    {CapAbsent, CapScalar}
      \cup {CapDict(f) : f \in UNION {[S -> CapChoices] : S \in SUBSET D}}

FullCap(D, H) == CapDict([d \in D |-> H])

\* the first surgery: flat (1, 0), and (1, 1) where it is the only one
FirstSurgery(sh) == IF sh = "one" THEN FlatSurgery(1, 1, "") ELSE FlatSurgery(1, 0, "")

\* the (mean, std) of the second surgery: flat, a mapping with an entry for every
\* (room, doctor), or a mapping with an entry for the first (room, doctor) only
SecondSurgeries(R, K) ==
    {FlatSurgery(1, 1, ""),
     MappedSurgery([p \in R \X K |->
                        [mu |-> IF p = <<MaxOf(R), MaxOf(K)>> /\ Cardinality(R \X K) > 1
                                THEN 2 ELSE 1,
                         sigma |-> 0]]),
     MappedSurgery([p \in {<<MinOf(R), MinOf(K)>>} |-> [mu |-> 1, sigma |-> 0]])}

InstancesOf(sh, h) ==
    {[surgeries |-> [j \in SurgeryIds(sh) |-> IF j = 1 THEN FirstSurgery(sh) ELSE s2],
      days      |-> [d \in DayIds(sh) |-> [H |-> h]],
      rooms     |-> [r \in RoomIds(sh) |-> [types |-> {}]],
      doctors   |-> [k \in DocIds(sh) |->
                        [daily_capacity |-> IF k = MaxOf(DocIds(sh)) THEN c
                                            ELSE FullCap(DayIds(sh), h),
                         specialties |-> {}]]] :
        c \in CapSpecs(DayIds(sh)),
        s2 \in SecondSurgeries(RoomIds(sh), DocIds(sh))}

\* alpha_choices, in percent; index t of the tuple is the code's alpha_idx t - 1
AlphaChoiceSets == {<<80, 50>>, <<10, 50>>, <<50, 100>>}

\* epsilon: a float, or a dict day -> float
EpsFloat(e) == [kind |-> "float", val |-> e, map |-> EmptyMap]
EpsDict(f) == [kind |-> "dict", val |-> 0, map |-> f]
\* one value of epsilon for the instances with two surgeries
EpsilonChoices(sh) ==
    IF sh \in {"rooms", "docs"} THEN {EpsFloat(25)}
    ELSE {EpsFloat(50), EpsFloat(25), EpsDict([d \in {1} |-> 50])}

InputsOf(sh) ==
    UNION {{[instance |-> i, alpha_choices |-> a, epsilon |-> e,
             max_ot_room |-> hc.room, max_ot_doc |-> hc.doc] :
                i \in InstancesOf(sh, hc.H), a \in AlphaChoiceSets, e \in EpsilonChoices(sh)} :
           hc \in HoursAndCaps(sh)}

Inputs == UNION {InputsOf(sh) : sh \in Shapes}

-----------------------------------------------------------------------------
(* DurationModel: SurgeryScheduler.precompute_durations *)

\* the formula with the ratio inverted, alpha / (1 - alpha)
BufferDuration_InvertedRatio(mu, sigma, alpha) ==
    IF alpha >= 100 THEN Inf
    ELSE mu + ISqrt((sigma * sigma * alpha) \div (100 - alpha))

\* the buffered duration of one (mu, sigma, alpha): lines 97-101
BufferDuration(mu, sigma, alpha) ==
    IF alpha >= 100 THEN Inf
    ELSE mu + ISqrt((sigma * sigma * (100 - alpha)) \div alpha)

\* the (mu, sigma) lookup of one (surgery, room, doctor): lines 74-93;
\* ok = FALSE is "mu is None or sigma is None" (and the 'continue's)
MuSigmaOf(surgery, room, doctor, r, k) ==
    IF surgery.has_mu_sigma
    THEN IF <<r, k>> \in DOMAIN surgery.mu_sigma
         THEN [ok |-> TRUE, mu |-> surgery.mu_sigma[<<r, k>>].mu,
               sigma |-> surgery.mu_sigma[<<r, k>>].sigma]
         ELSE [ok |-> FALSE, mu |-> 0, sigma |-> 0]
    ELSE IF surgery.has_duration_mean
         THEN IF surgery.specialty # ""
                 /\ (surgery.specialty \notin doctor.specialties
                     \/ surgery.specialty \notin room.types)
              THEN [ok |-> FALSE, mu |-> 0, sigma |-> 0]
              ELSE [ok |-> TRUE, mu |-> surgery.duration_mean,
                    sigma |-> surgery.duration_std]
         ELSE [ok |-> FALSE, mu |-> 0, sigma |-> 0]

\* durations[j][r][k][alpha_idx]: a function on the <<j, r, k, t>> that have a value
PrecomputeDurations(instance, alpha_choices) ==
    LET J == DOMAIN instance.surgeries
        R == DOMAIN instance.rooms
        K == DOMAIN instance.doctors
        T == DOMAIN alpha_choices
        ms(j, r, k) == MuSigmaOf(instance.surgeries[j], instance.rooms[r],
                                 instance.doctors[k], r, k)
        keys == {q \in J \X R \X K \X T : ms(q[1], q[2], q[3]).ok}
    IN  [q \in keys |->
            BufferDuration(ms(q[1], q[2], q[3]).mu, ms(q[1], q[2], q[3]).sigma,
                           alpha_choices[q[4]])]

-----------------------------------------------------------------------------
(* DomainBuilder: SurgeryScheduler.build_model and _preprocess_and_fix *)

\* build_model's capacity of doctor k on day d while it builds VALID: lines 140-147
CapValid(instance, k, d) ==
    LET dc == instance.doctors[k].daily_capacity
    IN  IF dc.kind = "scalar" THEN instance.days[d].H
        ELSE \* doc_dict[k].get('daily_capacity', {}) is a dict: .get(d, 0)
             IF d \in DOMAIN dc.map THEN dc.map[d] ELSE 0

\* _preprocess_and_fix's capacity of doctor k on day d: lines 252-259
CapPreprocess(instance, k, d) ==
    LET dc == instance.doctors[k].daily_capacity
    IN  IF dc.kind = "scalar" THEN instance.days[d].H
        ELSE IF d \in DOMAIN dc.map THEN dc.map[d] ELSE 0

\* the capacity of doctor k on day d in doc_cap_rule and doc_day_aggregate_cut_rule:
\* lines 299-303 and 438-442
CapConstraint(instance, k, d) ==
    LET dc == instance.doctors[k].daily_capacity
    IN  IF dc.kind = "scalar" THEN instance.days[d].H
        ELSE IF d \in DOMAIN dc.map THEN dc.map[d] ELSE instance.days[d].H

\* the filter comparing a duration with the capacity alone, without the overtime
PreprocessAndFix_NoOvertime(instance, durs, T, max_ot_doc) ==
    LET J == DOMAIN instance.surgeries
        D == DOMAIN instance.days
        R == DOMAIN instance.rooms
        K == DOMAIN instance.doctors
    IN  {v \in J \X D \X R \X K \X T :
            LET cap == CapPreprocess(instance, v[4], v[2])
            IN  IF cap = 0 THEN TRUE
                ELSE <<v[1], v[3], v[4], v[5]>> \in DOMAIN durs
                     /\ durs[<<v[1], v[3], v[4], v[5]>>] > cap}

\* the set of (j, d, r, k, t) fixed to zero: lines 241-276
PreprocessAndFix(instance, durs, T, max_ot_doc) ==
    LET J == DOMAIN instance.surgeries
        D == DOMAIN instance.days
        R == DOMAIN instance.rooms
        K == DOMAIN instance.doctors
    IN  {v \in J \X D \X R \X K \X T :
            LET j == v[1]  d == v[2]  r == v[3]  k == v[4]  t == v[5]
                cap == CapPreprocess(instance, k, d)
            IN  IF cap = 0 THEN TRUE
                ELSE <<j, r, k, t>> \in DOMAIN durs
                     /\ durs[<<j, r, k, t>>] > cap + max_ot_doc}

\* the valid combinations: lines 134-154
BuildValid(instance, durs, T, fixed_vars) ==
    LET J == DOMAIN instance.surgeries
        D == DOMAIN instance.days
        R == DOMAIN instance.rooms
        K == DOMAIN instance.doctors
    IN  {v \in J \X D \X R \X K \X T :
            /\ CapValid(instance, v[4], v[2]) > 0
            /\ <<v[1], v[3], v[4], v[5]>> \in DOMAIN durs
            /\ v \notin fixed_vars}

\* surgery_doctors[j]: lines 159-164
SurgeryDoctors(valid, j) == {v[4] : v \in {x \in valid : x[1] = j}}

\* 'shared' taken as the difference of the two doctor sets instead of their intersection
PrunedUDoc_Difference(J, D, valid) ==
    {q \in J \X J \X D \X (UNION {SurgeryDoctors(valid, j) : j \in J}) :
        /\ q[1] < q[2]
        /\ q[4] \in SurgeryDoctors(valid, q[1]) \ SurgeryDoctors(valid, q[2])}

\* the index set of u_doc: lines 190-197
PrunedUDoc(J, D, valid) ==
    {q \in J \X J \X D \X (UNION {SurgeryDoctors(valid, j) : j \in J}) :
        /\ q[1] < q[2]
        /\ q[4] \in SurgeryDoctors(valid, q[1]) \cap SurgeryDoctors(valid, q[2])}

\* epsilon_dict: lines 113-117 (0.25 is the default of a day the dict lacks)
EpsilonDict(epsilon, D) ==
    [d \in D |->
        IF epsilon.kind # "dict" THEN epsilon.val
        ELSE IF d \in DOMAIN epsilon.map THEN epsilon.map[d] ELSE 25]

\* the set of values of durations[j][r][k] over the non-empty ones: lines 220-222
DurationValues(durs) == {durs[q] : q \in DOMAIN durs}

\* A constraint rule whose sums run over no member of VALID returns a plain Python
\* bool instead of an expression over the variables, which pyo.Constraint rejects
\* with a ValueError: assign_rule for a surgery without a valid combination
\* (0 == 1, line 284) and day_aggregate_cut_rule for a day without one
\* (0 <= number, line 424).  The other rules keep a variable in the expression.
TrivialRuleRaises(J, D, valid) ==
    \/ \E j \in J : \A v \in valid : v[1] # j
    \/ \E d \in D : \A v \in valid : v[2] # d

\* build_model raises: max() of an empty sequence (line 220), math.log of a
\* non-positive number (lines 177 and 400), or a rule that is a plain bool
BuildRaisesWith(i, fixed_vars) ==
    LET durs == PrecomputeDurations(i.instance, i.alpha_choices)
        J == DOMAIN i.instance.surgeries
        D == DOMAIN i.instance.days
        T == DOMAIN i.alpha_choices
        valid == BuildValid(i.instance, durs, T, fixed_vars)
    IN  \/ DurationValues(durs) = {}
        \/ \E d \in D : LogRaises(EpsilonDict(i.epsilon, D)[d])
        \/ \E t \in T : LogRaises(i.alpha_choices[t])
        \/ TrivialRuleRaises(J, D, valid)

\* fixed_vars of build_model: line 132
FixedVars(i) ==
    PreprocessAndFix(i.instance, PrecomputeDurations(i.instance, i.alpha_choices),
                     DOMAIN i.alpha_choices, i.max_ot_doc)

BuildRaises(i) == BuildRaisesWith(i, FixedVars(i))

\* no relaxation at all
BigM_Zero(H, max_ot_room, max_dur) == 0

\* M_room of a day: lines 219-223
BigM(H, max_ot_room, max_dur) == H + max_ot_room + max_dur

\* the model build_model stores in self.model, for a given fixed_vars
BuildModelWith(i, fixed_vars) ==
    LET durs == PrecomputeDurations(i.instance, i.alpha_choices)
        J == DOMAIN i.instance.surgeries
        D == DOMAIN i.instance.days
        R == DOMAIN i.instance.rooms
        K == DOMAIN i.instance.doctors
        T == DOMAIN i.alpha_choices
        valid == BuildValid(i.instance, durs, T, fixed_vars)
        eps == EpsilonDict(i.epsilon, D)
        max_dur == MaxOf(DurationValues(durs))
    IN  [tag |-> "model",
         J |-> J, D |-> D, R |-> R, K |-> K, T |-> T,
         VALID |-> valid,
         epsilon_param |-> eps,
         log_one_minus_eps |-> [d \in D |-> LogOneMinus(eps[d])],
         ln_alpha |-> [t \in T |-> LogOneMinus(i.alpha_choices[t])],
         u_room_index |-> {q \in J \X J \X D \X R : q[1] < q[2]},
         pruned_u_doc |-> PrunedUDoc(J, D, valid),
         M_room |-> [d \in D |-> BigM(i.instance.days[d].H, i.max_ot_room, max_dur)]]

BuildModelOf(i) == BuildModelWith(i, FixedVars(i))

-----------------------------------------------------------------------------
(* ConstraintGenerator: SurgeryScheduler._add_constraints.  Each rule is a   *)
(* predicate on the values of the variables it mentions; it reads the built *)
(* model, the durations and the instance from the scheduler's state.        *)

\* how far the model lets s_doc and Idle (which have no upper bound in the
\* code) exceed the day's regular hours (plus room overtime for s_doc)
SDocSlack == 0
IdleSlack == 0

Hday(d) == inp.instance.days[d].H

\* sum of w over the members of VALID that satisfy the filter
WSum(w, S) == SumF(w, S)
\* sum of durations[j][r][k][t] * w over a subset of VALID
DurWSum(w, S) ==
    SumF([v \in S |-> durations[<<v[1], v[3], v[4], v[5]>>] * w[v]], S)

ValidJ(j) == {v \in model.VALID : v[1] = j}
ValidJDR(j, d, r) == {v \in model.VALID : v[1] = j /\ v[2] = d /\ v[3] = r}
ValidJDK(j, d, k) == {v \in model.VALID : v[1] = j /\ v[2] = d /\ v[4] = k}
ValidJDRK(j, d, r, k) == {v \in model.VALID : v[1] = j /\ v[2] = d /\ v[3] = r /\ v[4] = k}
ValidDR(d, r) == {v \in model.VALID : v[2] = d /\ v[3] = r}
ValidDK(d, k) == {v \in model.VALID : v[2] = d /\ v[4] = k}
ValidD(d) == {v \in model.VALID : v[2] = d}
ValidJD(j, d) == {v \in model.VALID : v[1] = j /\ v[2] = d}

\* model.y[j,d,k]: lines 214-217
y(w, j, d, k) == WSum(w, ValidJDK(j, d, k))

\* the assignment constraint as an inequality
assign_rule_AtMostOne(w, j) == WSum(w, ValidJ(j)) <= 1

\* Each surgery scheduled once (the code's constraint 1)
assign_rule(w, j) == WSum(w, ValidJ(j)) = 1

\* the room capacity against the overtime cap instead of the overtime variable
room_cap_rule_OvertimeCap(w, s, OT_room, j, d, r) ==
    LET chosen == WSum(w, ValidJDR(j, d, r))
        dur_sum == DurWSum(w, ValidJDR(j, d, r))
    IN  s[<<j, d, r>>] + dur_sum
            <= Hday(d) + inp.max_ot_room + model.M_room[d] * (1 - chosen)

\* Room capacity with overtime (the code's constraint 2)
room_cap_rule(w, s, OT_room, j, d, r) ==
    LET chosen == WSum(w, ValidJDR(j, d, r))
        dur_sum == DurWSum(w, ValidJDR(j, d, r))
    IN  s[<<j, d, r>>] + dur_sum
            <= Hday(d) + OT_room[<<d, r>>] + model.M_room[d] * (1 - chosen)

\* the doctor capacity against the overtime cap instead of the overtime variable
doc_cap_rule_OvertimeCap(w, OT_doc, k, d) ==
    LET cap == CapConstraint(inp.instance, k, d)
    IN  IF cap = 0 THEN TRUE
        ELSE DurWSum(w, ValidDK(d, k)) <= cap + inp.max_ot_doc

\* Doctor capacity with overtime (the code's constraint 3)
doc_cap_rule(w, OT_doc, k, d) ==
    LET cap == CapConstraint(inp.instance, k, d)
    IN  IF cap = 0 THEN TRUE   \* Constraint.Skip
        ELSE DurWSum(w, ValidDK(d, k)) <= cap + OT_doc[<<d, k>>]

\* Room-doctor start time sync (the code's constraints 4-5)
sdoc_upper_rule(w, s, s_doc, j, d, k, r) ==
    s_doc[<<j, d, k>>]
        <= s[<<j, d, r>>] + model.M_room[d] * (1 - WSum(w, ValidJDRK(j, d, r, k)))

\* the lower synchronization bound relaxed whether or not the combination is chosen
sdoc_lower_rule_AlwaysRelaxed(w, s, s_doc, j, d, k, r) ==
    s_doc[<<j, d, k>>] >= s[<<j, d, r>>] - model.M_room[d]

sdoc_lower_rule(w, s, s_doc, j, d, k, r) ==
    s_doc[<<j, d, k>>]
        >= s[<<j, d, r>>] - model.M_room[d] * (1 - WSum(w, ValidJDRK(j, d, r, k)))

\* the doctor's start bounded by the maximum overtime instead of the overtime used
sdoc_upper_H_rule_MaxOvertime(w, s_doc, OT_doc, j, d, k) ==
    s_doc[<<j, d, k>>]
        <= Hday(d) + inp.max_ot_doc + model.M_room[d] * (1 - y(w, j, d, k))

\* Doctor start time bounds (the code's constraint 6)
sdoc_upper_H_rule(w, s_doc, OT_doc, j, d, k) ==
    s_doc[<<j, d, k>>]
        <= Hday(d) + OT_doc[<<d, k>>] + model.M_room[d] * (1 - y(w, j, d, k))

\* Room start time bounds (the code's constraint 6b)
s_room_upper_rule(w, s, OT_room, j, d, r) ==
    LET chosen == WSum(w, ValidJDR(j, d, r))
    IN  s[<<j, d, r>>] <= Hday(d) + OT_room[<<d, r>>] + model.M_room[d] * (1 - chosen)

\* Doctor duration link (the code's constraint 7)
durdoc_link_rule(w, dur_doc, j, d, k) ==
    dur_doc[<<j, d, k>>] = DurWSum(w, ValidJDK(j, d, k))

\* Idle time link (the code's constraint 7b)
idle_link_rule(w, Idle, d, r) ==
    Idle[<<d, r>>] >= Hday(d) - DurWSum(w, ValidDR(d, r))

\* Room sequencing (the code's constraints 8-9)
room_seq_fwd_rule(w, s, u_room, j, i, d, r) ==
    LET chosen_j == WSum(w, ValidJDR(j, d, r))
        chosen_i == WSum(w, ValidJDR(i, d, r))
        dur_j == DurWSum(w, ValidJDR(j, d, r))
    IN  s[<<i, d, r>>] >= s[<<j, d, r>>] + dur_j
                            - model.M_room[d] * (2 - chosen_j - chosen_i)
                            - model.M_room[d] * (1 - u_room[<<j, i, d, r>>])

\* the backward ordering without the duration of the preceding surgery
room_seq_bwd_rule_NoDuration(w, s, u_room, j, i, d, r) ==
    LET chosen_j == WSum(w, ValidJDR(j, d, r))
        chosen_i == WSum(w, ValidJDR(i, d, r))
    IN  s[<<j, d, r>>] >= s[<<i, d, r>>]
                            - model.M_room[d] * (2 - chosen_j - chosen_i)
                            - model.M_room[d] * u_room[<<j, i, d, r>>]

room_seq_bwd_rule(w, s, u_room, j, i, d, r) ==
    LET chosen_j == WSum(w, ValidJDR(j, d, r))
        chosen_i == WSum(w, ValidJDR(i, d, r))
        dur_i == DurWSum(w, ValidJDR(i, d, r))
    IN  s[<<j, d, r>>] >= s[<<i, d, r>>] + dur_i
                            - model.M_room[d] * (2 - chosen_j - chosen_i)
                            - model.M_room[d] * u_room[<<j, i, d, r>>]

\* Doctor sequencing (only over pruned_u_doc) (the code's constraints 10-11)
doctor_seq_fwd_rule(w, s_doc, dur_doc, u_doc, j, i, d, k) ==
    s_doc[<<i, d, k>>] >= s_doc[<<j, d, k>>] + dur_doc[<<j, d, k>>]
                            - model.M_room[d] * (2 - y(w, j, d, k) - y(w, i, d, k))
                            - model.M_room[d] * (1 - u_doc[<<j, i, d, k>>])

doctor_seq_bwd_rule(w, s_doc, dur_doc, u_doc, j, i, d, k) ==
    s_doc[<<j, d, k>>] >= s_doc[<<i, d, k>>] + dur_doc[<<i, d, k>>]
                            - model.M_room[d] * (2 - y(w, j, d, k) - y(w, i, d, k))
                            - model.M_room[d] * u_doc[<<j, i, d, k>>]

\* the reliability sum with every choice weighted as the first risk level
reliability_rule_FirstAlpha(w, d) ==
    SumF([v \in ValidD(d) |-> model.ln_alpha[1] * w[v]], ValidD(d))
        >= model.log_one_minus_eps[d]

\* Reliability constraint (the code's constraint 12)
reliability_rule(w, d) ==
    SumF([v \in ValidD(d) |-> model.ln_alpha[v[5]] * w[v]], ValidD(d))
        >= model.log_one_minus_eps[d]

\* the largest duration of a surgery in place of the smallest
MinDuration_Largest(j) ==
    LET vals == {durations[q] : q \in {x \in DOMAIN durations : x[1] = j}}
    IN  IF vals = {} THEN 0 ELSE MaxOf(vals)

\* min_durations[j]: lines 409-416
MinDuration(j) ==
    LET vals == {durations[q] : q \in {x \in DOMAIN durations : x[1] = j}}
    IN  IF vals = {} THEN 0 ELSE MinOf(vals)

\* Per-day aggregate capacity cut (the code's constraint 13)
day_aggregate_cut_rule(w, d) ==
    SumF([j \in model.J |-> MinDuration(j) * WSum(w, ValidJD(j, d))], model.J)
        <= Cardinality(model.R) * (Hday(d) + inp.max_ot_room)

\* Per-room per-day aggregate capacity cut (the code's constraint 14)
room_day_aggregate_cut_rule(w, OT_room, d, r) ==
    SumF([j \in model.J |-> MinDuration(j) * WSum(w, ValidJDR(j, d, r))], model.J)
        <= Hday(d) + OT_room[<<d, r>>]

\* Per-doctor per-day aggregate capacity cut (the code's constraint 15)
doc_day_aggregate_cut_rule(w, OT_doc, d, k) ==
    LET cap == CapConstraint(inp.instance, k, d)
    IN  IF cap = 0 THEN TRUE   \* Constraint.Skip
        ELSE SumF([j \in model.J |-> MinDuration(j) * WSum(w, ValidJDK(j, d, k))], model.J)
                <= cap + OT_doc[<<d, k>>]

-----------------------------------------------------------------------------
(* The external solver: any values of the model's variables, within their   *)
(* domains and bounds (lines 181-212), that satisfy every constraint.       *)

JDR == model.J \X model.D \X model.R
JDK == model.J \X model.D \X model.K
DR == model.D \X model.R
DK == model.D \X model.K

MaxH == MaxOf({Hday(d) : d \in model.D})

\* w: Binary over VALID
WValues ==
    {w \in [model.VALID -> {0, 1}] :
        /\ \A j \in model.J : assign_rule(w, j)
        /\ \A d \in model.D : reliability_rule(w, d)
        /\ \A d \in model.D : day_aggregate_cut_rule(w, d)}

\* OT_doc: bounds (0, max_ot_doc)
OTDocValues(w) ==
    {o \in [DK -> 0..inp.max_ot_doc] :
        \A q \in DK : /\ doc_cap_rule(w, o, q[2], q[1])
                      /\ doc_day_aggregate_cut_rule(w, o, q[1], q[2])}

\* OT_room: bounds (0, max_ot_room)
OTRoomValues(w) ==
    {o \in [DR -> 0..inp.max_ot_room] :
        \A q \in DR : room_day_aggregate_cut_rule(w, o, q[1], q[2])}

\* s: bounds (0, H + max_ot_room)
SValues(w, OT_room) ==
    {s \in [JDR -> 0..(MaxH + inp.max_ot_room)] :
        \A q \in JDR :
            /\ s[q] <= Hday(q[2]) + inp.max_ot_room
            /\ room_cap_rule(w, s, OT_room, q[1], q[2], q[3])
            /\ s_room_upper_rule(w, s, OT_room, q[1], q[2], q[3])}

\* u_room: Binary over the pairs j < i
URoomValues(w, s) ==
    {u \in [model.u_room_index -> {0, 1}] :
        \A q \in model.u_room_index :
            /\ room_seq_fwd_rule(w, s, u, q[1], q[2], q[3], q[4])
            /\ room_seq_bwd_rule(w, s, u, q[1], q[2], q[3], q[4])}

\* s_doc: NonNegativeReals
SDocValues(w, s, OT_doc) ==
    {sd \in [JDK -> 0..(MaxH + inp.max_ot_room + SDocSlack)] :
        \A q \in JDK :
            /\ sdoc_upper_H_rule(w, sd, OT_doc, q[1], q[2], q[3])
            /\ \A r \in model.R :
                /\ sdoc_upper_rule(w, s, sd, q[1], q[2], q[3], r)
                /\ sdoc_lower_rule(w, s, sd, q[1], q[2], q[3], r)}

\* dur_doc: NonNegativeReals, no larger than the largest duration
DurDocValues(w) ==
    {dd \in [JDK -> 0..MaxOf(DurationValues(durations))] :
        \A q \in JDK : durdoc_link_rule(w, dd, q[1], q[2], q[3])}

\* u_doc: Binary over pruned_u_doc
UDocValues(w, s_doc, dur_doc) ==
    {u \in [model.pruned_u_doc -> {0, 1}] :
        \A q \in model.pruned_u_doc :
            /\ doctor_seq_fwd_rule(w, s_doc, dur_doc, u, q[1], q[2], q[3], q[4])
            /\ doctor_seq_bwd_rule(w, s_doc, dur_doc, u, q[1], q[2], q[3], q[4])}

\* Idle: NonNegativeReals
IdleValues(w) ==
    {idle \in [DR -> 0..(MaxH + IdleSlack)] :
        \A q \in DR : idle_link_rule(w, idle, q[1], q[2])}

\* every assignment that satisfies the whole constraint system
Solutions ==
    UNION {UNION {UNION {UNION {UNION {UNION {UNION {
        {[w |-> w, OT_doc |-> od, OT_room |-> orm, s |-> s, u_room |-> ur,
          s_doc |-> sd, dur_doc |-> dd, u_doc |-> ud, Idle |-> idle] :
            idle \in IdleValues(w)} :
            ud \in UDocValues(w, sd, dd)} :
            sd \in SDocValues(w, s, od)} :
            ur \in URoomValues(w, s)} :
            s \in SValues(w, orm)} :
            orm \in OTRoomValues(w)} :
            od \in OTDocValues(w), dd \in DurDocValues(w)} :
            w \in WValues}

-----------------------------------------------------------------------------
(* FeasibilityAnalyzer: check_instance_feasibility, in the order of its code *)

\* (mu, sigma) of one (surgery, room, doctor): lines 39-45
FAMuSigma(surgery, r, k) ==
    IF surgery.has_mu_sigma /\ <<r, k>> \in DOMAIN surgery.mu_sigma
    THEN [mu |-> surgery.mu_sigma[<<r, k>>].mu, sigma |-> surgery.mu_sigma[<<r, k>>].sigma]
    ELSE \* surgery.get("mu", surgery.get("duration_mean", 0)), and so for sigma
         IF surgery.has_duration_mean
         THEN [mu |-> surgery.duration_mean, sigma |-> surgery.duration_std]
         ELSE [mu |-> 0, sigma |-> 0]

\* buffered duration at max_alpha: lines 47-48 (no test of max_alpha >= 1.0 here)
FABuffered(surgery, r, k, max_alpha) ==
    LET ms == FAMuSigma(surgery, r, k)
    IN  ms.mu + ISqrt((ms.sigma * ms.sigma * (100 - max_alpha)) \div max_alpha)

\* math.sqrt raises ValueError for a negative argument: line 47
FASqrtRaises(i) ==
    /\ MaxOf({i.alpha_choices[t] : t \in DOMAIN i.alpha_choices}) > 100
    /\ DOMAIN i.instance.surgeries # {}
    /\ DOMAIN i.instance.rooms # {}
    /\ DOMAIN i.instance.doctors # {}

\* min_buffered of each surgery: lines 35-51
FAMinBuffered(i, max_alpha) ==
    [j \in DOMAIN i.instance.surgeries |->
        MinOf({Inf} \cup {FABuffered(i.instance.surgeries[j], r, k, max_alpha) :
                            r \in DOMAIN i.instance.rooms, k \in DOMAIN i.instance.doctors})]

\* daily_cap of a doctor and day: lines 73-76; a 'daily_capacity' that is no
\* dict has no .get (AttributeError)
FADailyCapRaises(instance) ==
    \E k \in DOMAIN instance.doctors : instance.doctors[k].daily_capacity.kind = "scalar"

FADailyCap(instance, k, d) ==
    LET dc == instance.doctors[k].daily_capacity
    IN  IF dc.kind = "dict" /\ d \in DOMAIN dc.map THEN dc.map[d] ELSE instance.days[d].H

\* the largest capacity of a doctor on a day, without the overtime
FAMaxDoctorCapacityPerDay_NoOvertime(i) ==
    MaxOf({(LET dc == i.instance.doctors[k].daily_capacity
            IN  IF dc.kind = "scalar" THEN i.instance.days[d].H
                ELSE (IF d \in DOMAIN dc.map THEN dc.map[d] ELSE i.instance.days[d].H)) :
            k \in DOMAIN i.instance.doctors, d \in DOMAIN i.instance.days})

\* max_doctor_capacity_per_day: lines 89-97
FAMaxDoctorCapacityPerDay(i) ==
    MaxOf({(LET dc == i.instance.doctors[k].daily_capacity
            IN  IF dc.kind = "scalar" THEN i.instance.days[d].H + i.max_ot_doc
                ELSE (IF d \in DOMAIN dc.map THEN dc.map[d] ELSE i.instance.days[d].H)
                        + i.max_ot_doc) :
            k \in DOMAIN i.instance.doctors, d \in DOMAIN i.instance.days})

\* epsilon_val: line 122 (0.25 unless epsilon is a float)
FAEpsilonVal(epsilon) == IF epsilon.kind = "float" THEN epsilon.val ELSE 25

\* capacity_feasible: lines 114-119
FACapacityFeasible(room_ok, doc_ok, individual_ok) == room_ok /\ doc_ok /\ individual_ok

\* the logarithm of the largest alpha, the most negative one
FAMaxLnAlpha_LargestAlpha(alpha_choices) ==
    LogOneMinus(MaxOf({alpha_choices[t] : t \in DOMAIN alpha_choices}))

\* max_ln_alpha: lines 124-125, the largest of the logarithms ln(1 - a)
FAMaxLnAlpha(alpha_choices) ==
    MaxOf({LogOneMinus(alpha_choices[t]) : t \in DOMAIN alpha_choices})

\* a count feasible when its logarithm is at most the required one
FACountFeasible_AtMost(n, max_ln_alpha, ln_1_minus_eps) ==
    n * max_ln_alpha <= ln_1_minus_eps

\* 'feasible' of one surgeries_per_day: lines 133-135
FACountFeasible(n, max_ln_alpha, ln_1_minus_eps) ==
    n * max_ln_alpha >= ln_1_minus_eps

\* the overall verdict as the capacity verdict alone
FAOverallFeasible_CapacityOnly(capacity_feasible, reliability_feasible) == capacity_feasible

\* overall_feasible: line 154
FAOverallFeasible(capacity_feasible, reliability_feasible) ==
    capacity_feasible /\ reliability_feasible

\* lines 31-53
FA_MinDurations ==
    /\ fa_pc = "idle"
    /\ IF FASqrtRaises(inp)
       THEN /\ fa_pc' = "failed"
            /\ fa' = fa
       ELSE LET max_alpha == MaxOf({inp.alpha_choices[t] : t \in DOMAIN inp.alpha_choices})
                mb == FAMinBuffered(inp, max_alpha)
            IN  /\ fa_pc' = "durations"
                /\ fa' = [tag |-> "locals", max_alpha |-> max_alpha,
                          min_buffered |-> mb,
                          total_min_buffered |-> SumF(mb, DOMAIN mb)]
    /\ UNCHANGED <<inp, pc, durations, model, results, sol, probe, post>>

\* lines 55-119
FA_Capacity ==
    /\ fa_pc = "durations"
    /\ IF FADailyCapRaises(inp.instance)
       THEN /\ fa_pc' = "failed"
            /\ fa' = fa
       ELSE LET D == DOMAIN inp.instance.days
                R == DOMAIN inp.instance.rooms
                K == DOMAIN inp.instance.doctors
                J == DOMAIN inp.instance.surgeries
                total_regular_room == SumF([d \in D |-> inp.instance.days[d].H], D)
                                        * Cardinality(R)
                total_max_room == SumF([d \in D |-> inp.instance.days[d].H + inp.max_ot_room], D)
                                        * Cardinality(R)
                total_regular_doc == SumF([q \in K \X D |->
                                            FADailyCap(inp.instance, q[1], q[2])], K \X D)
                total_max_doc == SumF([q \in K \X D |->
                                        FADailyCap(inp.instance, q[1], q[2]) + inp.max_ot_doc],
                                      K \X D)
                max_cap == FAMaxDoctorCapacityPerDay(inp)
                room_ok == fa.total_min_buffered <= total_max_room
                doc_ok == fa.total_min_buffered <= total_max_doc
                bad == {j \in J : fa.min_buffered[j] > max_cap}
            IN  /\ fa_pc' = "capacity"
                /\ fa' = fa @@
                         [total_regular_room_capacity |-> total_regular_room,
                          total_max_room_capacity |-> total_max_room,
                          total_regular_doctor_capacity |-> total_regular_doc,
                          total_max_doctor_capacity |-> total_max_doc,
                          max_doctor_capacity_per_day |-> max_cap,
                          room_capacity_feasible |-> room_ok,
                          doctor_capacity_feasible |-> doc_ok,
                          room_capacity_deficit |->
                              IF room_ok THEN 0 ELSE fa.total_min_buffered - total_max_room,
                          doctor_capacity_deficit |->
                              IF doc_ok THEN 0 ELSE fa.total_min_buffered - total_max_doc,
                          individual_surgery_feasible |-> bad = {},
                          infeasible_surgeries |->
                              [j \in bad |-> [duration |-> fa.min_buffered[j],
                                              max_capacity |-> max_cap,
                                              excess |-> fa.min_buffered[j] - max_cap]],
                          capacity_feasible |-> FACapacityFeasible(room_ok, doc_ok, bad = {})]
    /\ UNCHANGED <<inp, pc, durations, model, results, sol, probe, post>>

\* lines 121-183; math.log raises for alpha or epsilon >= 1, and the utilization
\* percentages divide by the regular capacities
FA_Reliability ==
    /\ fa_pc = "capacity"
    /\ LET epsilon_val == FAEpsilonVal(inp.epsilon)
           T == DOMAIN inp.alpha_choices
           raises == \/ LogRaises(epsilon_val)
                     \/ \E t \in T : LogRaises(inp.alpha_choices[t])
                     \/ fa.total_regular_room_capacity = 0
                     \/ fa.total_regular_doctor_capacity = 0
       IN  IF raises
           THEN /\ fa_pc' = "failed"
                /\ fa' = fa
           ELSE LET ln_1_minus_eps == LogOneMinus(epsilon_val)
                    max_ln_alpha == FAMaxLnAlpha(inp.alpha_choices)
                    num_surgeries == Cardinality(DOMAIN inp.instance.surgeries)
                    checks == [n \in 1..num_surgeries |->
                                  [required_ln |-> ln_1_minus_eps,
                                   achievable_ln |-> n * max_ln_alpha,
                                   feasible |-> FACountFeasible(n, max_ln_alpha,
                                                                ln_1_minus_eps)]]
                    rel_ok == \E n \in 1..num_surgeries : checks[n].feasible
                IN  /\ fa_pc' = "done"
                    /\ fa' = [fa @@ [reliability_checks |-> checks,
                                     reliability_feasible |-> rel_ok,
                                     epsilon |-> epsilon_val,
                                     overall_feasible |->
                                         FAOverallFeasible(fa.capacity_feasible, rel_ok)]
                                EXCEPT !.tag = "result"]
    /\ UNCHANGED <<inp, pc, durations, model, results, sol, probe, post>>

-----------------------------------------------------------------------------
(* The buffered-duration formula on its own inputs *)

MaxMu == 3
MaxSigma == 3
ProbeAlphas == {1, 2, 5, 10, 20, 25, 50, 75, 90, 99}

InitProbe ==
    /\ inp = None
    /\ pc = "probe"
    /\ durations = None
    /\ model = None
    /\ results = None
    /\ sol = None
    /\ fa_pc = "off"
    /\ fa = None
    /\ solver_calls = 0
    /\ analyzer = None
    /\ rel_check = None
    /\ outcome = "none"
    /\ solve_time = None
    /\ probe \in {[tag |-> "in", mu |-> m, sigma |-> sg, alpha1 |-> a1, alpha2 |-> a2] :
                    m \in 0..MaxMu, sg \in 0..MaxSigma, a1 \in ProbeAlphas, a2 \in ProbeAlphas}

\* lines 95-103 for one (mu, sigma) and two alpha choices
EvalBuffer ==
    /\ probe.tag = "in"
    /\ probe' = [tag |-> "out", mu |-> probe.mu, sigma |-> probe.sigma,
                 alpha1 |-> probe.alpha1, alpha2 |-> probe.alpha2,
                 buffered1 |-> BufferDuration(probe.mu, probe.sigma, probe.alpha1),
                 buffered2 |-> BufferDuration(probe.mu, probe.sigma, probe.alpha2)]
    /\ UNCHANGED <<inp, pc, durations, model, results, sol, fa_pc, fa, post>>

SpecBuffer == InitProbe /\ [][EvalBuffer]_vars

-----------------------------------------------------------------------------
(* The scheduler's operations *)

NoProbe == [tag |-> "None"]

Init ==
    /\ inp \in Inputs
    /\ pc = "new"
    /\ durations = None      \* __init__: lines 53-56
    /\ model = None
    /\ results = None
    /\ sol = None
    /\ fa_pc = "idle"
    /\ fa = None
    /\ probe = NoProbe
    /\ solver_calls = 0
    /\ analyzer = None      \* ResultsAnalyzer.__init__: schedule, idle_time, overtime_info are None
    /\ rel_check = None
    /\ outcome = "none"
    /\ solve_time = None

\* The analyzer and the scheduler only read the caller's inputs, so the order of
\* the two is immaterial; the caller runs the analyzer first.
\* SurgeryScheduler.build_model: self.durations is set first (line 110), self.model
\* only at the end (line 238), so a build that raises leaves the model unset
BuildModel ==
    /\ pc = "new"
    /\ fa_pc \in {"done", "failed"}
    /\ durations' = PrecomputeDurations(inp.instance, inp.alpha_choices)
    /\ IF BuildRaises(inp)
       THEN /\ model' = model
            /\ pc' = "build_failed"
       ELSE /\ model' = BuildModelOf(inp)
            /\ pc' = "built"
    /\ UNCHANGED <<inp, results, sol, fa_pc, fa, probe, post>>

\* the external solver called twice by one solve()
InvokeSolver_Twice(calls) == calls + 2

\* solver.solve(...): line 486 or line 496, one call on either branch
InvokeSolver(calls) == calls + 1

\* time.time() - start_time: lines 487 and 497
Measured == [tag |-> "seconds"]

\* SurgeryScheduler.solve before a model exists: lines 456-457, RuntimeError
\* "Model not built. Call build_model() first."
SolveNotBuilt ==
    /\ pc \in {"new", "build_failed"}
    /\ fa_pc \in {"done", "failed"}
    /\ model = None
    /\ pc' = "solve_raised"
    /\ UNCHANGED <<inp, durations, model, results, sol, fa_pc, fa, probe, post>>

\* SurgeryScheduler.solve, the solver returning values for every variable
SolveFound ==
    /\ pc = "built"
    /\ model # None
    /\ \E x \in Solutions : sol' = x
    /\ results' = [tag |-> "results", termination |-> "optimal"]
    /\ pc' = "solved"
    /\ solver_calls' = InvokeSolver(solver_calls)
    /\ solve_time' = Measured
    /\ UNCHANGED <<inp, durations, model, fa_pc, fa, probe, analyzer, rel_check, outcome>>

\* SurgeryScheduler.solve, the solver reporting that no assignment exists
SolveInfeasible ==
    /\ pc = "built"
    /\ model # None
    /\ Solutions = {}
    /\ results' = [tag |-> "results", termination |-> "infeasible"]
    /\ pc' = "solve_failed"
    /\ solver_calls' = InvokeSolver(solver_calls)
    /\ solve_time' = Measured
    /\ UNCHANGED <<inp, durations, model, sol, fa_pc, fa, probe, analyzer, rel_check, outcome>>

\* The values the solver leaves in the variables when it stops at the time limit
\* are not the core's to constrain: within the variables' domains, any choice of
\* at most one indicator per surgery on average (no more than |J| in all), with
\* every other variable at zero.
PerturbedOutputs ==
    {[w |-> w,
      OT_doc |-> [q \in DK |-> 0], OT_room |-> [q \in DR |-> 0],
      s |-> [q \in JDR |-> 0], u_room |-> [q \in model.u_room_index |-> 0],
      s_doc |-> [q \in JDK |-> 0], dur_doc |-> [q \in JDK |-> 0],
      u_doc |-> [q \in model.pruned_u_doc |-> 0], Idle |-> [q \in DR |-> 0]] :
        w \in {f \in [model.VALID -> {0, 1}] :
                 SumF(f, model.VALID) <= Cardinality(model.J)}}

\* SurgeryScheduler.solve, the solver stopping at the time limit
SolveTimeLimit ==
    /\ pc = "built"
    /\ model # None
    /\ \E x \in PerturbedOutputs : sol' = x
    /\ results' = [tag |-> "results", termination |-> "maxTimeLimit"]
    /\ pc' = "time_limit"
    /\ solver_calls' = InvokeSolver(solver_calls)
    /\ solve_time' = Measured
    /\ UNCHANGED <<inp, durations, model, fa_pc, fa, probe, analyzer, rel_check, outcome>>

-----------------------------------------------------------------------------
(* ResultExtractor/Validator: ResultsAnalyzer, and the end of main *)

\* the schedule entries, one per member of VALID with w > 0.5: lines 33-76
ScheduleOf(x) ==
    [v \in {c \in model.VALID : x.w[c] = 1} |->
        [surgery_id |-> v[1], day |-> v[2], room |-> v[3], doctor |-> v[4],
         alpha |-> inp.alpha_choices[v[5]],
         buffered_duration |-> durations[<<v[1], v[3], v[4], v[5]>>],
         start |-> x.s[<<v[1], v[2], v[3]>>],
         end |-> x.s[<<v[1], v[2], v[3]>>] + durations[<<v[1], v[3], v[4], v[5]>>]]]

\* overtime_info: lines 78-94 (only the overtime above 0.01)
OvertimeInfoOf(x) ==
    [room |-> [q \in {c \in DR : x.OT_room[c] > 0} |-> x.OT_room[q]],
     doctor |-> [q \in {c \in DK : x.OT_doc[c] > 0} |-> x.OT_doc[q]]]

\* day_room_used: lines 100-101
DayRoomUsed(schedule, d, r) ==
    LET mine == {v \in DOMAIN schedule : schedule[v].day = d /\ schedule[v].room = r}
    IN  SumF([v \in mine |-> schedule[v].buffered_duration], mine)

\* the regular hours minus the used time, summed as it is
IdleTimeOf_Signed(schedule) ==
    LET pairs == (DOMAIN inp.instance.days) \X (DOMAIN inp.instance.rooms)
    IN  SumF([q \in pairs |->
                inp.instance.days[q[1]].H - DayRoomUsed(schedule, q[1], q[2])],
             pairs)

\* total_idle: lines 96-102
IdleTimeOf(schedule) ==
    LET pairs == (DOMAIN inp.instance.days) \X (DOMAIN inp.instance.rooms)
    IN  SumF([q \in pairs |->
                LET left == inp.instance.days[q[1]].H - DayRoomUsed(schedule, q[1], q[2])
                IN  IF left > 0 THEN left ELSE 0],
             pairs)

\* extract_schedule: lines 26-113; 'extractions' counts the calls
ExtractSchedule(a, x) ==
    [tag |-> "analyzer",
     schedule |-> ScheduleOf(x),
     idle_time |-> IdleTimeOf(ScheduleOf(x)),
     overtime_info |-> OvertimeInfoOf(x),
     extractions |-> IF a = None THEN 1 ELSE a.extractions + 1]

\* verify_reliability extracting the schedule on every call
NeedsExtraction_Always(a) == TRUE

\* "if self.schedule is None": lines 188-189
NeedsExtraction(a) == a = None

\* verify_reliability's epsilon of a day: lines 208-211
VerifyEpsilon(epsilon, day_id) ==
    IF epsilon.kind = "dict"
    THEN IF day_id \in DOMAIN epsilon.map THEN epsilon.map[day_id] ELSE 25
    ELSE epsilon.val

\* reliability_check: lines 196-224.  The slack is in units of 1e-5, so the
\* tolerance "slack >= -1e-6" is "slack >= 0" on these whole numbers.
ReliabilityCheckOf(schedule) ==
    LET days == {schedule[v].day : v \in DOMAIN schedule}
    IN  [day_id \in days |->
            LET mine == {v \in DOMAIN schedule : schedule[v].day = day_id}
                lhs == SumF([v \in mine |-> LogOneMinus(schedule[v].alpha)], mine)
                epsilon_val == VerifyEpsilon(inp.epsilon, day_id)
                rhs == LogOneMinus(epsilon_val)
            IN  [lhs |-> lhs, rhs |-> rhs, slack |-> lhs - rhs,
                 satisfied |-> lhs - rhs >= 0, epsilon |-> epsilon_val]]

\* the terminations main goes on to analyze: line 104
AnalyzedTerminations == {"optimal", "maxTimeLimit"}

\* a schedule with no more entries than surgeries reported as complete
MainOutcome_AtMost(term, n_schedule, n_surgeries) ==
    IF term \in AnalyzedTerminations
    THEN IF n_schedule <= n_surgeries THEN "solution_found" ELSE "partial"
    ELSE "solve_failed"

\* what main reports: lines 104, 109, 150 and 155
MainOutcome(term, n_schedule, n_surgeries) ==
    IF term \in AnalyzedTerminations
    THEN IF n_schedule = n_surgeries THEN "solution_found" ELSE "partial"
    ELSE "solve_failed"

\* compute_statistics divides by the total regular capacity: line 128
StatisticsRaise ==
    SumF([d \in DOMAIN inp.instance.days |-> inp.instance.days[d].H],
         DOMAIN inp.instance.days) * Cardinality(DOMAIN inp.instance.rooms) = 0

\* main after solve(): lines 101-157
Report ==
    /\ pc \in {"solved", "time_limit", "solve_failed"}
    /\ outcome = "none"
    /\ LET term == results.termination
           extracted == ExtractSchedule(analyzer, sol)
           reported == MainOutcome(term, Cardinality(DOMAIN extracted.schedule),
                                   Cardinality(DOMAIN inp.instance.surgeries))
       IN  IF term \in AnalyzedTerminations
           THEN /\ analyzer' = extracted
                /\ IF reported = "solution_found"
                   THEN IF StatisticsRaise
                        THEN /\ outcome' = "solution_found_then_error"
                             /\ rel_check' = rel_check
                        ELSE /\ outcome' = reported
                             /\ rel_check' = ReliabilityCheckOf(extracted.schedule)
                   ELSE /\ outcome' = reported
                        /\ rel_check' = rel_check
           ELSE /\ outcome' = reported
                /\ UNCHANGED <<analyzer, rel_check>>
    /\ UNCHANGED <<inp, pc, durations, model, results, sol, fa_pc, fa, probe, solver_calls, solve_time>>

\* ResultsAnalyzer.verify_reliability called once more on the same analyzer:
\* lines 186-224
VerifyReliability ==
    /\ outcome = "solution_found"
    /\ pc \in {"solved", "time_limit"}
    /\ LET a == IF NeedsExtraction(analyzer) THEN ExtractSchedule(analyzer, sol) ELSE analyzer
       IN  /\ analyzer' = a
           /\ rel_check' = ReliabilityCheckOf(a.schedule)
    /\ pc' = "reverified"
    /\ UNCHANGED <<inp, durations, model, results, sol, fa_pc, fa, probe, solver_calls, outcome, solve_time>>

Next ==
    \/ FA_MinDurations
    \/ FA_Capacity
    \/ FA_Reliability
    \/ BuildModel
    \/ SolveNotBuilt
    \/ SolveFound
    \/ SolveInfeasible
    \/ SolveTimeLimit
    \/ Report
    \/ VerifyReliability

Spec == Init /\ [][Next]_vars

-----------------------------------------------------------------------------
(* Properties *)

Solved == pc = "solved"

\* the combinations the solution chooses, and what it chooses for them
Chosen == {v \in model.VALID : sol.w[v] = 1}
DurOf(v) == durations[<<v[1], v[3], v[4], v[5]>>]
RoomStart(v) == sol.s[<<v[1], v[2], v[3]>>]
DocStart(v) == sol.s_doc[<<v[1], v[2], v[4]>>]
ChosenInRoom(d, r) == {v \in Chosen : v[2] = d /\ v[3] = r}
ChosenForDoctor(d, k) == {v \in Chosen : v[2] = d /\ v[4] = k}
ChosenOnDay(d) == {v \in Chosen : v[2] = d}

\* C1: in every assignment satisfying the constraint system each surgery has
\* exactly one chosen indicator w[j,d,r,k,t] = 1 over VALID.
C1_ExactlyOneChosen ==
    Solved => \A j \in model.J : Cardinality({v \in Chosen : v[1] = j}) = 1

C1_Witness ==
    /\ Solved
    /\ \E j \in model.J : /\ Cardinality(ValidJ(j)) > 1
                          /\ Cardinality({v \in Chosen : v[1] = j}) = 1

\* C2: two distinct surgeries chosen in the same room on the same day have
\* disjoint intervals [start, start + buffered duration).
C2_RoomIntervalsDisjoint ==
    Solved =>
        \A a \in Chosen, b \in Chosen :
            (a[1] # b[1] /\ a[2] = b[2] /\ a[3] = b[3])
                => \/ RoomStart(b) >= RoomStart(a) + DurOf(a)
                   \/ RoomStart(a) >= RoomStart(b) + DurOf(b)

C2_Witness ==
    /\ Solved
    /\ \E a \in Chosen, b \in Chosen :
          /\ a[1] < b[1] /\ a[2] = b[2] /\ a[3] = b[3]
          /\ RoomStart(a) >= RoomStart(b) + DurOf(b)

\* C3: every chosen surgery ends no later than H plus its room's overtime, and
\* the buffered durations chosen in a room/day sum to at most H + OT_room[d,r].
C3_RoomCapacity ==
    Solved =>
        /\ \A v \in Chosen :
              RoomStart(v) + DurOf(v) <= Hday(v[2]) + sol.OT_room[<<v[2], v[3]>>]
        /\ \A q \in DR :
              SumF([v \in ChosenInRoom(q[1], q[2]) |-> DurOf(v)], ChosenInRoom(q[1], q[2]))
                  <= Hday(q[1]) + sol.OT_room[q]

C3_Witness ==
    /\ Solved
    /\ \E q \in DR :
          /\ Cardinality(ChosenInRoom(q[1], q[2])) = 2
          /\ sol.OT_room[q] > 0
          /\ SumF([v \in ChosenInRoom(q[1], q[2]) |-> DurOf(v)], ChosenInRoom(q[1], q[2]))
                = Hday(q[1]) + sol.OT_room[q]

\* C4: two distinct surgeries chosen for the same doctor on the same day, in
\* the same or in different rooms, have disjoint intervals
\* [s_doc, s_doc + buffered duration); and every pair of surgeries that VALID
\* lets share a (doctor, day) has a doctor-ordering indicator.
C4_DoctorIntervalsDisjoint ==
    /\ Solved =>
          \A a \in Chosen, b \in Chosen :
              (a[1] # b[1] /\ a[2] = b[2] /\ a[4] = b[4])
                  => \/ DocStart(b) >= DocStart(a) + DurOf(a)
                     \/ DocStart(a) >= DocStart(b) + DurOf(b)
    /\ model # None =>
          \A a \in model.VALID, b \in model.VALID :
              (a[1] < b[1] /\ a[2] = b[2] /\ a[4] = b[4])
                  => <<a[1], b[1], a[2], a[4]>> \in model.pruned_u_doc

C4_Witness ==
    /\ Solved
    /\ \E a \in Chosen, b \in Chosen :
          /\ a[1] # b[1] /\ a[2] = b[2] /\ a[4] = b[4] /\ a[3] # b[3]
          /\ DocStart(b) >= DocStart(a) + DurOf(a)

\* C5: for a (doctor, day) of non-zero capacity the chosen buffered durations
\* sum to at most the capacity plus OT_doc[d,k]; for one of zero capacity the
\* constraint is skipped and no surgery is chosen there.
C5_DoctorCapacity ==
    Solved =>
        \A q \in DK :
            LET cap == CapConstraint(inp.instance, q[2], q[1])
                mine == ChosenForDoctor(q[1], q[2])
            IN  IF cap # 0
                THEN SumF([v \in mine |-> DurOf(v)], mine) <= cap + sol.OT_doc[q]
                ELSE mine = {}

C5_Witness ==
    /\ Solved
    /\ \E q \in DK : CapConstraint(inp.instance, q[2], q[1]) = 0
    /\ \E q \in DK :
          /\ CapConstraint(inp.instance, q[2], q[1]) # 0
          /\ sol.OT_doc[q] > 0
          /\ SumF([v \in ChosenForDoctor(q[1], q[2]) |-> DurOf(v)], ChosenForDoctor(q[1], q[2]))
                = CapConstraint(inp.instance, q[2], q[1]) + sol.OT_doc[q]

\* C6: for every day the sum of ln(1 - alpha) over the surgeries chosen on it,
\* each at its chosen risk level, is at least ln(1 - epsilon_day).
C6_Reliability ==
    Solved =>
        \A d \in model.D :
            SumF([v \in ChosenOnDay(d) |-> LogOneMinus(inp.alpha_choices[v[5]])],
                 ChosenOnDay(d))
                >= LogOneMinus(EpsilonDict(inp.epsilon, model.D)[d])

C6_Witness ==
    /\ Solved
    /\ \E d \in model.D :
          /\ Cardinality(ChosenOnDay(d)) = 2
          /\ \E v \in model.VALID :
                /\ v[2] = d
                /\ LogOneMinus(inp.alpha_choices[v[5]])
                      < LogOneMinus(EpsilonDict(inp.epsilon, model.D)[d])

\* C7: for the (day, room, doctor) chosen for a surgery the doctor-side start
\* equals the room-side start.
C7_StartsSynchronized ==
    Solved => \A v \in Chosen : DocStart(v) = RoomStart(v)

\* a chosen combination is synchronized while, in the same solution, a
\* combination that is not chosen has a doctor-side start other than its
\* room-side start: the relaxed two-sided constraint imposes no equality there
C7_Witness ==
    /\ Solved
    /\ \E v \in Chosen : DocStart(v) = RoomStart(v) /\ RoomStart(v) > 0
    /\ \E j \in model.J, d \in model.D, r \in model.R, k \in model.K :
          /\ \A v \in Chosen : <<v[1], v[2], v[3], v[4]>> # <<j, d, r, k>>
          /\ sol.s_doc[<<j, d, k>>] # sol.s[<<j, d, r>>]

\* the capacity the specification gives a doctor on a day: the mapping's entry,
\* the day's regular hours H without one
DocumentedCap(k, d) ==
    LET dc == inp.instance.doctors[k].daily_capacity
    IN  IF dc.kind = "dict" /\ d \in DOMAIN dc.map THEN dc.map[d] ELSE Hday(d)

\* C8: a doctor without a per-day capacity mapping, or without an entry for a
\* day, has the day's regular hours H as capacity, in the construction of
\* VALID and in the preprocessing as in the analyzer.
C8_DefaultCapacityIsH ==
    /\ model # None =>
          \A v \in model.J \X model.D \X model.R \X model.K \X model.T :
              v \in model.VALID
                <=> /\ <<v[1], v[3], v[4], v[5]>> \in DOMAIN durations
                    /\ DocumentedCap(v[4], v[2]) > 0
                    /\ DurOf(v) <= DocumentedCap(v[4], v[2]) + inp.max_ot_doc
    /\ fa_pc \in {"capacity", "done"} =>
          fa.total_regular_doctor_capacity
              = SumF([q \in (DOMAIN inp.instance.doctors) \X (DOMAIN inp.instance.days) |->
                        DocumentedCap(q[1], q[2])],
                     (DOMAIN inp.instance.doctors) \X (DOMAIN inp.instance.days))

\* C9: for 0 < alpha < 1 the buffered duration is at least mu, and it is
\* monotonically non-increasing in alpha.
C9_BufferedMonotone ==
    probe.tag = "out" =>
        /\ probe.buffered1 >= probe.mu
        /\ probe.buffered2 >= probe.mu
        /\ probe.alpha1 <= probe.alpha2 => probe.buffered1 >= probe.buffered2

C9_Witness ==
    /\ probe.tag = "out"
    /\ probe.alpha1 < probe.alpha2
    /\ probe.buffered1 > probe.buffered2
    /\ probe.buffered2 > probe.mu

\* C10: for a configured alpha >= 1 the buffered duration is +infinity: no
\* combination using it is in VALID, and the analyzer's minimum buffered
\* durations, taken at an alpha >= 1, are not finite.
C10_AlphaGeOneExcluded ==
    /\ model # None =>
          \A v \in model.VALID : inp.alpha_choices[v[5]] < 100
    /\ (fa # None /\ fa.max_alpha >= 100) =>
          \A j \in DOMAIN fa.min_buffered : fa.min_buffered[j] >= Inf

-----------------------------------------------------------------------------
(* Input errors *)

\* what the specification calls a malformed instance: a per-(room, doctor) mapping
\* without the entry of some room and doctor, a surgery with no (mean, std) at
\* all, an alpha >= 1 among the choices, a day of non-positive regular hours
MalformedSurgery(surgery, R, K) ==
    \/ surgery.has_mu_sigma /\ \E p \in R \X K : p \notin DOMAIN surgery.mu_sigma
    \/ ~surgery.has_mu_sigma /\ ~surgery.has_duration_mean

MalformedInput(i) ==
    \/ \E j \in DOMAIN i.instance.surgeries :
          MalformedSurgery(i.instance.surgeries[j], DOMAIN i.instance.rooms,
                           DOMAIN i.instance.doctors)
    \/ \E t \in DOMAIN i.alpha_choices : i.alpha_choices[t] >= 100
    \/ \E d \in DOMAIN i.instance.days : i.instance.days[d].H <= 0

\* C11: build_model on a malformed instance ends in an error and leaves no
\* model; the malformed combination is never silently dropped.
C11_MalformedInputFailsBuild ==
    (pc # "new" /\ MalformedInput(inp)) => (pc = "build_failed" /\ model = None)

-----------------------------------------------------------------------------
(* The analyzer's report *)

\* the analyzer has computed its capacity checks
FAChecked == fa_pc \in {"capacity", "done"}

\* the largest capacity one doctor has on one day, overtime included
MaxDoctorDayCapacity ==
    MaxOf({DocumentedCap(k, d) + inp.max_ot_doc :
            k \in DOMAIN inp.instance.doctors, d \in DOMAIN inp.instance.days})

\* C12: infeasible_surgeries lists exactly the surgeries whose minimum buffered
\* duration exceeds the largest (daily capacity + max doctor overtime) over all
\* doctors and days; the excess of an entry is the difference of the two, and
\* individual_surgery_feasible is false iff the list is not empty.
C12_IndividualSurgeryCheck ==
    FAChecked =>
        /\ DOMAIN fa.infeasible_surgeries
              = {j \in DOMAIN inp.instance.surgeries :
                    fa.min_buffered[j] > MaxDoctorDayCapacity}
        /\ \A j \in DOMAIN fa.infeasible_surgeries :
              /\ fa.infeasible_surgeries[j].duration = fa.min_buffered[j]
              /\ fa.infeasible_surgeries[j].max_capacity = MaxDoctorDayCapacity
              /\ fa.infeasible_surgeries[j].excess
                    = fa.min_buffered[j] - MaxDoctorDayCapacity
        /\ fa.individual_surgery_feasible <=> (DOMAIN fa.infeasible_surgeries = {})

\* one surgery is listed with a positive excess while another one fits
C12_Witness ==
    /\ FAChecked
    /\ \E j \in DOMAIN fa.infeasible_surgeries : fa.infeasible_surgeries[j].excess > 0
    /\ \E j \in DOMAIN inp.instance.surgeries : j \notin DOMAIN fa.infeasible_surgeries
    /\ ~fa.individual_surgery_feasible
    /\ inp.max_ot_doc > 0

\* the analyzer has returned its report
FAReturned == fa_pc = "done"

SmallestAlpha == MinOf({inp.alpha_choices[t] : t \in DOMAIN inp.alpha_choices})
LargestAlpha == MaxOf({inp.alpha_choices[t] : t \in DOMAIN inp.alpha_choices})

C14_OverallIsConjunction ==
    FAReturned =>
        /\ fa.overall_feasible
              <=> /\ fa.room_capacity_feasible
                  /\ fa.doctor_capacity_feasible
                  /\ fa.individual_surgery_feasible
                  /\ fa.reliability_feasible
        /\ fa.capacity_feasible
              <=> /\ fa.room_capacity_feasible
                  /\ fa.doctor_capacity_feasible
                  /\ fa.individual_surgery_feasible

\* only the reliability check fails
C14_Witness ==
    /\ FAReturned
    /\ fa.room_capacity_feasible
    /\ fa.doctor_capacity_feasible
    /\ fa.individual_surgery_feasible
    /\ fa.capacity_feasible
    /\ ~fa.reliability_feasible
    /\ ~fa.overall_feasible

-----------------------------------------------------------------------------
(* The analyzer's verdict against the model *)

\* C15: when check_instance_feasibility returns overall_feasible = false, the
\* model built from the same inputs has no assignment satisfying all its
\* constraints.
C15_InfeasibleVerdictIsProof ==
    (FAReturned /\ ~fa.overall_feasible) =>
        /\ pc = "built" => Solutions = {}
        /\ pc # "solved"


-----------------------------------------------------------------------------
(* The schedules main reports as found *)

Accepted == outcome \in {"solution_found", "solution_found_then_error"}

\* I1 on an extracted schedule: every surgery has exactly one entry
ScheduleI1(schedule) ==
    \A j \in DOMAIN inp.instance.surgeries :
        Cardinality({v \in DOMAIN schedule : schedule[v].surgery_id = j}) = 1

\* I2 on an extracted schedule: in every room and day the buffered durations fit
\* in the regular hours plus the room's overtime, and the intervals are disjoint
ScheduleI2(schedule, x) ==
    /\ \A q \in DR :
          DayRoomUsed(schedule, q[1], q[2]) <= inp.instance.days[q[1]].H + x.OT_room[q]
    /\ \A v1, v2 \in DOMAIN schedule :
          (v1 # v2 /\ schedule[v1].day = schedule[v2].day
                   /\ schedule[v1].room = schedule[v2].room) =>
              \/ schedule[v1].end <= schedule[v2].start
              \/ schedule[v2].end <= schedule[v1].start

\* I4 on an extracted schedule: every day's sum of ln(1 - alpha) is at least
\* ln(1 - epsilon_day)
ScheduleI4(schedule) ==
    \A d \in DOMAIN inp.instance.days :
        LET mine == {v \in DOMAIN schedule : schedule[v].day = d}
        IN  SumF([v \in mine |-> LogOneMinus(schedule[v].alpha)], mine)
                >= LogOneMinus(EpsilonDict(inp.epsilon, DOMAIN inp.instance.days)[d])

\* C16: every schedule reported as a found solution with all surgeries scheduled
\* satisfies the invariants (here I1, I2 and I4), whatever values the solver
\* left in the variables.
C16_AcceptedScheduleSatisfiesInvariants ==
    Accepted =>
        /\ ScheduleI1(analyzer.schedule)
        /\ ScheduleI2(analyzer.schedule, sol)
        /\ ScheduleI4(analyzer.schedule)


\* C17: a schedule is reported as found only if every day's recomputed
\* reliability slack is at least minus the tolerance; a day below it makes the
\* report something other than a found solution.
C17_AcceptedOnlyIfReliabilityVerified ==
    outcome = "solution_found" =>
        \A day_id \in DOMAIN rel_check : rel_check[day_id].satisfied


-----------------------------------------------------------------------------
(* Calling the validator again *)

\* C18: verify_reliability called again on an analyzer that already holds its
\* schedule returns the same lhs, rhs, slack and satisfied values for every day,
\* extracts nothing again, leaves the stored schedule as it was, and leaves the
\* scheduler's durations, instance and model untouched.
C18_VerifyReliabilityIdempotent ==
    [][VerifyReliability =>
          /\ rel_check' = rel_check
          /\ analyzer' = analyzer
          /\ analyzer'.extractions = 1
          /\ durations' = durations /\ inp' = inp /\ model' = model /\ sol' = sol]_vars

C18_Witness ==
    /\ pc = "reverified"
    /\ analyzer.extractions = 1
    /\ results.termination = "optimal"
    /\ \E day_id \in DOMAIN rel_check : rel_check[day_id].slack > 0


-----------------------------------------------------------------------------
(* Partial schedules *)

\* C19: when the solver ends optimal or at the time limit and the extracted
\* schedule has fewer entries than there are surgeries, main reports a partial
\* solution: not a solve failure (which is the report of every other
\* termination, and only of those) and not a found solution.  The solver has
\* been called exactly once when the report is made, and is never called again.
C19_FewerEntriesReportedPartial ==
    /\ solver_calls <= 1
    /\ outcome # "none" =>
          /\ solver_calls = 1
          /\ (outcome = "solve_failed") <=> (results.termination \notin AnalyzedTerminations)
          /\ (/\ results.termination \in AnalyzedTerminations
              /\ Cardinality(DOMAIN analyzer.schedule)
                     < Cardinality(DOMAIN inp.instance.surgeries))
                => outcome = "partial"

C19_Witness ==
    /\ outcome = "partial"
    /\ results.termination = "maxTimeLimit"
    /\ Cardinality(DOMAIN analyzer.schedule) = 1
    /\ Cardinality(DOMAIN inp.instance.surgeries) = 2


-----------------------------------------------------------------------------
(* The big-M relaxations *)

\* the combinations an assignment w chooses
ChosenOf(w) == {v \in model.VALID : w[v] = 1}

\* Start times c of the chosen combinations that satisfy the bounds of s and the
\* relaxed constraints in the form they take when their indicators are all 1:
\* room capacity and room start bound, the doctor's start (equal to the room
\* start) within the doctor's day, and one of the two orders for two surgeries
\* of one room, or of one doctor where the pair is in pruned_u_doc.
ActiveConstraintsHold(w, OT_doc, OT_room, c) ==
    LET dur(v) == durations[<<v[1], v[3], v[4], v[5]>>]
    IN  /\ \A v \in ChosenOf(w) :
              /\ c[v] <= Hday(v[2]) + inp.max_ot_room
              /\ c[v] + dur(v) <= Hday(v[2]) + OT_room[<<v[2], v[3]>>]
              /\ c[v] <= Hday(v[2]) + OT_room[<<v[2], v[3]>>]
              /\ c[v] <= Hday(v[2]) + OT_doc[<<v[2], v[4]>>]
        /\ \A v1, v2 \in ChosenOf(w) :
              (v1[1] < v2[1] /\ v1[2] = v2[2] /\ v1[3] = v2[3]) =>
                  \/ c[v2] >= c[v1] + dur(v1)
                  \/ c[v1] >= c[v2] + dur(v2)
        /\ \A v1, v2 \in ChosenOf(w) :
              (/\ v1[2] = v2[2] /\ v1[4] = v2[4]
               /\ <<v1[1], v2[1], v1[2], v1[4]>> \in model.pruned_u_doc) =>
                  \/ c[v2] >= c[v1] + dur(v1)
                  \/ c[v1] >= c[v2] + dur(v2)

\* what a solution says about the chosen surgeries
ChosenPart(x) ==
    [w |-> x.w, OT_doc |-> x.OT_doc, OT_room |-> x.OT_room,
     c |-> [v \in ChosenOf(x.w) |-> x.s[<<v[1], v[2], v[3]>>]]]

\* C20: with M_d = H_d + max room overtime + the largest buffered duration, the
\* relaxed constraints whose indicators are not all 1 cut off nothing: every
\* choice of start times of the chosen surgeries that satisfies the bounds and
\* the constraints whose indicators are all 1 extends to a solution of the
\* whole constraint system.
C20_BigMRelaxationsAreSlack ==
    pc = "built" =>
        LET parts == {ChosenPart(x) : x \in Solutions}
        IN  \A w \in WValues :
              \A od \in OTDocValues(w), orm \in OTRoomValues(w) :
                \A c \in [ChosenOf(w) -> 0..(MaxH + inp.max_ot_room)] :
                    ActiveConstraintsHold(w, od, orm, c) =>
                        [w |-> w, OT_doc |-> od, OT_room |-> orm, c |-> c] \in parts

\* two surgeries chosen in one room of one day, one after the other, with the
\* relaxed constraints of the other room and day in force
C20_Witness ==
    /\ pc = "built"
    /\ \E w \in WValues :
          \E od \in OTDocValues(w), orm \in OTRoomValues(w) :
            \E c \in [ChosenOf(w) -> 0..(MaxH + inp.max_ot_room)] :
                /\ ActiveConstraintsHold(w, od, orm, c)
                /\ \E v1, v2 \in ChosenOf(w) :
                      v1[1] # v2[1] /\ v1[2] = v2[2] /\ v1[3] = v2[3] /\ c[v2] > 0
                /\ \E q \in JDR : WSum(w, ValidJDR(q[1], q[2], q[3])) = 0


-----------------------------------------------------------------------------
(* The preprocessing filter against the model built without it *)

\* build_model run again with _preprocess_and_fix returning the empty set
RebuildWithoutFilter ==
    /\ pc \in {"built", "build_failed"}
    /\ IF BuildRaisesWith(inp, {})
       THEN /\ model' = None
            /\ pc' = "unfiltered_failed"
       ELSE /\ model' = BuildModelWith(inp, {})
            /\ pc' = "unfiltered"
    /\ UNCHANGED <<inp, durations, results, sol, fa_pc, fa, probe, post>>

\* two days of 2 hours, a surgery of duration 2 and a doctor with 2 hours on the
\* first day and 1 on the second: a day on which the filter leaves nothing
EmptiedDayInputs ==
    {[instance |-> [surgeries |-> [j \in {1} |-> FlatSurgery(2, 0, "")],
                    days      |-> [d \in {1, 2} |-> [H |-> 2]],
                    rooms     |-> [r \in {1} |-> [types |-> {}]],
                    doctors   |-> [k \in {1} |->
                                    [daily_capacity |-> CapDict([d \in {1, 2} |-> 3 - d]),
                                     specialties |-> {}]]],
      alpha_choices |-> a, epsilon |-> EpsFloat(50),
      max_ot_room |-> 0, max_ot_doc |-> 0] : a \in {<<10, 50>>}}

InitFilter ==
    /\ inp \in Inputs \cup EmptiedDayInputs
    /\ pc = "new"
    /\ durations = None
    /\ model = None
    /\ results = None
    /\ sol = None
    /\ fa_pc = "idle"
    /\ fa = None
    /\ probe = NoProbe
    /\ solver_calls = 0
    /\ analyzer = None
    /\ rel_check = None
    /\ outcome = "none"
    /\ solve_time = None

NextFilter ==
    \/ FA_MinDurations
    \/ FA_Capacity
    \/ FA_Reliability
    \/ BuildModel
    \/ RebuildWithoutFilter

SpecFilter == InitFilter /\ [][NextFilter]_vars

\* a solution without the order variables of the doctors (whose index set
\* depends on VALID), its indicators restricted to the combinations in S
WithoutUDoc(x, S) ==
    [w |-> [v \in S |-> x.w[v]], OT_doc |-> x.OT_doc, OT_room |-> x.OT_room,
     s |-> x.s, u_room |-> x.u_room, s_doc |-> x.s_doc, dur_doc |-> x.dur_doc,
     Idle |-> x.Idle]

\* C21: the combinations _preprocess_and_fix excludes are chosen in no solution
\* of the model built without the filter, and the model built with the filter
\* has the same solutions (so the same values of the objective, which is a
\* function of Idle, OT_room, OT_doc and s); where the filtered build stops with
\* an error the unfiltered model has no solution.
C21_FilterIsSound ==
    [][(RebuildWithoutFilter /\ model' # None) =>
          /\ \A x \in Solutions' :
                \A v \in model'.VALID \cap FixedVars(inp) : x.w[v] = 0
          /\ model # None =>
                /\ model.VALID = model'.VALID \ FixedVars(inp)
                /\ {WithoutUDoc(x, model.VALID) : x \in Solutions'}
                       = {WithoutUDoc(x, model.VALID) : x \in Solutions}
          /\ model = None => Solutions' = {}]_vars


-----------------------------------------------------------------------------
(* The valid combinations *)

AllCombinations == model.J \X model.D \X model.R \X model.K \X model.T

\* C22: a combination (j, d, r, k, t) is in VALID iff a buffered duration is
\* defined for (j, r, k, t), the capacity of doctor k on day d is not zero, and
\* that duration is at most the capacity plus the maximum doctor overtime.  So a
\* zero capacity excludes every combination of that day and doctor, and a single
\* duration that does not fit excludes that combination only.
C22_ValidMembership ==
    pc = "built" =>
        \A v \in AllCombinations :
            v \in model.VALID <=>
                /\ <<v[1], v[3], v[4], v[5]>> \in DOMAIN durations
                /\ CapValid(inp.instance, v[4], v[2]) # 0
                /\ durations[<<v[1], v[3], v[4], v[5]>>]
                       <= CapValid(inp.instance, v[4], v[2]) + inp.max_ot_doc

\* a doctor without capacity on a day, and a surgery of which one risk level
\* does not fit another doctor's day while another risk level does
C22_Witness ==
    /\ pc = "built"
    /\ \E q \in DK : CapValid(inp.instance, q[2], q[1]) = 0
    /\ \E v1, v2 \in AllCombinations :
          /\ v1 \notin model.VALID /\ v2 \in model.VALID
          /\ v1[1] = v2[1] /\ v1[2] = v2[2] /\ v1[3] = v2[3] /\ v1[4] = v2[4]
          /\ <<v1[1], v1[3], v1[4], v1[5]>> \in DOMAIN durations
          /\ inp.max_ot_doc > 0
          /\ durations[<<v1[1], v1[3], v1[4], v1[5]>>]
                 > CapValid(inp.instance, v1[4], v1[2]) + inp.max_ot_doc


-----------------------------------------------------------------------------
(* The aggregate capacity cuts *)

\* the assignments that satisfy every constraint family but the three cuts
\* (day_aggregate_cut, room_day_aggregate_cut, doc_day_aggregate_cut)
SolutionsWithoutCuts ==
    UNION {UNION {UNION {UNION {UNION {UNION {UNION {
        {[w |-> w, OT_doc |-> od, OT_room |-> orm, s |-> s, u_room |-> ur,
          s_doc |-> sd, dur_doc |-> dd, u_doc |-> ud, Idle |-> idle] :
            idle \in IdleValues(w)} :
            ud \in UDocValues(w, sd, dd)} :
            sd \in SDocValues(w, s, od)} :
            ur \in URoomValues(w, s)} :
            s \in SValues(w, orm)} :
            orm \in [DR -> 0..inp.max_ot_room]} :
            od \in {o \in [DK -> 0..inp.max_ot_doc] :
                        \A q \in DK : doc_cap_rule(w, o, q[2], q[1])},
            dd \in DurDocValues(w)} :
            w \in {f \in [model.VALID -> {0, 1}] :
                        /\ \A j \in model.J : assign_rule(f, j)
                        /\ \A d \in model.D : reliability_rule(f, d)}}

\* the three cuts on one assignment
CutsHold(x) ==
    /\ \A d \in model.D : day_aggregate_cut_rule(x.w, d)
    /\ \A q \in DR : room_day_aggregate_cut_rule(x.w, x.OT_room, q[1], q[2])
    /\ \A q \in DK : doc_day_aggregate_cut_rule(x.w, x.OT_doc, q[1], q[2])

\* C23: the aggregate cuts are valid inequalities: every assignment of the
\* indicators, start times and overtimes that satisfies all the other
\* constraints satisfies every cut, so the cuts remove no solution.
C23_CutsAreValidInequalities ==
    pc = "built" => (\A x \in SolutionsWithoutCuts : CutsHold(x))

\* an assignment with two surgeries in one room on one day, whose minimum
\* durations fill the room's regular hours and overtime exactly
C23_Witness ==
    /\ pc = "built"
    /\ \E x \in SolutionsWithoutCuts :
          \E q \in DR :
              /\ Cardinality({j \in model.J : WSum(x.w, ValidJDR(j, q[1], q[2])) = 1}) = 2
              /\ SumF([j \in model.J |->
                          MinDuration(j) * WSum(x.w, ValidJDR(j, q[1], q[2]))], model.J)
                     = Hday(q[1]) + x.OT_room[q]


-----------------------------------------------------------------------------
(* The analyzer's minimum durations against the DurationModel *)

\* the (room, doctor, risk level) for which durations holds a value of surgery j
\* at the largest alpha
DefinedAtLargestAlpha(j) ==
    {q \in DOMAIN durations : q[1] = j /\ inp.alpha_choices[q[4]] = LargestAlpha}

\* C24: for every surgery, the analyzer's minimum buffered duration equals the
\* minimum, over the (room, doctor) pairs for which precompute_durations defines
\* a duration, of that duration at the largest configured alpha.
C24_AnalyzerMinDurationMatches ==
    (fa_pc \in {"durations", "capacity", "done"} /\ durations # None) =>
        \A j \in DOMAIN inp.instance.surgeries :
            DefinedAtLargestAlpha(j) # {} =>
                fa.min_buffered[j] = MinOf({durations[q] : q \in DefinedAtLargestAlpha(j)})


-----------------------------------------------------------------------------
(* Specialty compatibility in precompute_durations *)

Specialties == {"cardio", "ortho"}

\* one surgery with a single (mean, std) and an optional specialty, one room and
\* one doctor with any set of types and specialties
SpecialtyInputs ==
    {[instance |-> [surgeries |-> [j \in {1} |-> FlatSurgery(mu, 0, sp)],
                    days      |-> [d \in {1} |-> [H |-> 2]],
                    rooms     |-> [r \in {1} |-> [types |-> ty]],
                    doctors   |-> [k \in {1} |->
                                    [daily_capacity |-> FullCap({1}, 2),
                                     specialties |-> ds]]],
      alpha_choices |-> <<10, 50>>, epsilon |-> EpsFloat(50),
      max_ot_room |-> 0, max_ot_doc |-> 0] :
        mu \in {1, 2}, sp \in {""} \cup Specialties,
        ty \in SUBSET Specialties, ds \in SUBSET Specialties}

InitSpecialty ==
    /\ inp \in SpecialtyInputs
    /\ pc = "new"
    /\ durations = None
    /\ model = None
    /\ results = None
    /\ sol = None
    /\ fa_pc = "idle"
    /\ fa = None
    /\ probe = NoProbe
    /\ solver_calls = 0
    /\ analyzer = None
    /\ rel_check = None
    /\ outcome = "none"
    /\ solve_time = None

\* self.durations = self.precompute_durations(): line 110
Precompute ==
    /\ pc = "new"
    /\ durations' = PrecomputeDurations(inp.instance, inp.alpha_choices)
    /\ pc' = "durations"
    /\ UNCHANGED <<inp, model, results, sol, fa_pc, fa, probe, post>>

SpecSpecialty == InitSpecialty /\ [][Precompute]_vars

\* compatibility as documented: with a specialty or type set on any of the
\* three, the surgery's specialty must be supported by the doctor and the room
SpecialtyCompatible(surgery, room, doctor) ==
    IF surgery.specialty = "" /\ doctor.specialties = {} /\ room.types = {}
    THEN TRUE
    ELSE surgery.specialty \in doctor.specialties /\ surgery.specialty \in room.types

\* C25: for a surgery with a single (mean, std), a (room, doctor) gets a buffered
\* duration iff it is specialty-compatible: inadmissible when any of the three
\* specifies a specialty or type set and the surgery's specialty is not
\* supported by both the doctor and the room, admissible when none does.
C25_DurationIffCompatible ==
    pc = "durations" =>
        \A j \in DOMAIN inp.instance.surgeries :
          \A r \in DOMAIN inp.instance.rooms, k \in DOMAIN inp.instance.doctors :
            ~inp.instance.surgeries[j].has_mu_sigma =>
                ((\E t \in DOMAIN inp.alpha_choices : <<j, r, k, t>> \in DOMAIN durations)
                    <=> SpecialtyCompatible(inp.instance.surgeries[j],
                                            inp.instance.rooms[r], inp.instance.doctors[k]))


-----------------------------------------------------------------------------
(* The recomputed idle time *)

\* the buffered durations of the combinations with w = 1 in room r on day d
UsedInRoom(d, r) ==
    LET mine == {v \in model.VALID : sol.w[v] = 1 /\ v[2] = d /\ v[3] = r}
    IN  SumF([v \in mine |-> durations[<<v[1], v[3], v[4], v[5]>>]], mine)

\* C26: the idle time extract_schedule recomputes is the sum over every (day,
\* room) of max(0, H_day - used time); it is never negative, a room used beyond
\* its regular hours contributes 0, and in a solution of the constraint system
\* it is at most the sum of the model's Idle[d, r].
C26_IdleTimeRecomputed ==
    analyzer # None =>
        /\ analyzer.idle_time
              = SumF([q \in DR |-> IF Hday(q[1]) > UsedInRoom(q[1], q[2])
                                   THEN Hday(q[1]) - UsedInRoom(q[1], q[2]) ELSE 0], DR)
        /\ analyzer.idle_time >= 0
        /\ (\A q \in DR : UsedInRoom(q[1], q[2]) >= Hday(q[1])) => analyzer.idle_time = 0
        /\ results.termination = "optimal" => analyzer.idle_time <= SumF(sol.Idle, DR)

\* a solution with one room used beyond its regular hours and another idle
C26_Witness ==
    /\ analyzer # None
    /\ results.termination = "optimal"
    /\ \E q \in DR : UsedInRoom(q[1], q[2]) > Hday(q[1])
    /\ analyzer.idle_time > 0


-----------------------------------------------------------------------------
(* One epsilon in the model, the validator and the analyzer *)

\* C27: for the caller's epsilon, a scalar or a per-day mapping, the value used
\* for each day is the same in the model's reliability right-hand side, in
\* verify_reliability's rhs and in the analyzer's reliability check.
C27_SameEpsilonEverywhere ==
    /\ (model # None /\ FAReturned) =>
          \A d \in model.D : model.epsilon_param[d] = fa.epsilon
    /\ (model # None /\ rel_check # None) =>
          \A d \in DOMAIN rel_check : rel_check[d].epsilon = model.epsilon_param[d]


-----------------------------------------------------------------------------
(* The start of a chosen surgery and the doctor's overtime *)

\* C28: in every solution of the constraint system, a chosen surgery starts no
\* later than the day's regular hours H plus the overtime OT_doc of its doctor
\* on that day, hence no later than H plus the maximum doctor overtime,
\* whatever the room's overtime and the doctor's daily capacity.
C28_StartWithinDoctorDay ==
    Solved =>
        \A v \in Chosen :
            /\ RoomStart(v) <= Hday(v[2]) + sol.OT_doc[<<v[2], v[4]>>]
            /\ RoomStart(v) <= Hday(v[2]) + inp.max_ot_doc

\* a surgery starting after the regular hours, in the overtime of its doctor,
\* the doctor's capacity being different from the regular hours
C28_Witness ==
    /\ Solved
    /\ \E v \in Chosen :
          /\ RoomStart(v) = Hday(v[2]) + sol.OT_doc[<<v[2], v[4]>>]
          /\ sol.OT_doc[<<v[2], v[4]>>] > 0
          /\ CapConstraint(inp.instance, v[4], v[2]) # Hday(v[2])


-----------------------------------------------------------------------------
(* The analyzer's reliability counts *)

\* the analyzer on instances of zero to three surgeries and one or two days,
\* with every alpha strictly between 0 and 1
AnalyzerInputs ==
    {[instance |-> [surgeries |-> [j \in 1..n |-> FlatSurgery(1, 0, "")],
                    days      |-> [d \in 1..nd |-> [H |-> 2]],
                    rooms     |-> [r \in {1} |-> [types |-> {}]],
                    doctors   |-> [k \in {1} |->
                                    [daily_capacity |-> FullCap(1..nd, 2),
                                     specialties |-> {}]]],
      alpha_choices |-> a, epsilon |-> EpsFloat(e),
      max_ot_room |-> 0, max_ot_doc |-> 0] :
        n \in 0..3, nd \in 1..2, a \in {<<20, 50>>, <<10, 50>>, <<50, 80>>},
        e \in {25, 50}}

InitAnalyzer ==
    /\ inp \in AnalyzerInputs
    /\ pc = "new"
    /\ durations = None
    /\ model = None
    /\ results = None
    /\ sol = None
    /\ fa_pc = "idle"
    /\ fa = None
    /\ probe = NoProbe
    /\ solver_calls = 0
    /\ analyzer = None
    /\ rel_check = None
    /\ outcome = "none"
    /\ solve_time = None

NextAnalyzer ==
    \/ FA_MinDurations
    \/ FA_Capacity
    \/ FA_Reliability

SpecAnalyzer == InitAnalyzer /\ [][NextAnalyzer]_vars

\* C29: with every alpha in (0, 1), the feasible surgeries-per-day counts of
\* reliability_checks are downward closed, so reliability_feasible is the
\* n = 1 check alone, whatever the number of surgeries (at least one) and of
\* days; with no surgery there is no check and reliability_feasible is false.
C29_FeasibleCountsDownwardClosed ==
    FAReturned =>
        /\ DOMAIN fa.reliability_checks = 1..Cardinality(DOMAIN inp.instance.surgeries)
        /\ \A n1, n2 \in DOMAIN fa.reliability_checks :
              (n1 < n2 /\ fa.reliability_checks[n2].feasible)
                  => fa.reliability_checks[n1].feasible
        /\ DOMAIN inp.instance.surgeries # {} =>
              (fa.reliability_feasible
                  <=> LogOneMinus(SmallestAlpha) >= LogOneMinus(fa.epsilon))
        /\ DOMAIN inp.instance.surgeries = {} => ~fa.reliability_feasible

\* three counts checked, the first feasible and the last not
C29_Witness ==
    /\ FAReturned
    /\ Cardinality(DOMAIN inp.instance.surgeries) = 3
    /\ fa.reliability_checks[1].feasible
    /\ fa.reliability_checks[2].feasible
    /\ ~fa.reliability_checks[3].feasible


-----------------------------------------------------------------------------
(* The order of the operations *)

\* C30: solve() before build_model() raises 'Model not built' without calling
\* a solver and leaves model, results and solve_time unset; solve() after a
\* successful build calls the solver exactly once and stores its result; the
\* extraction comes after the solve.
C30_BuildThenSolveThenExtract ==
    /\ pc = "solve_raised" =>
          /\ model = None /\ results = None /\ solve_time = None
          /\ sol = None /\ solver_calls = 0
    /\ pc \in {"solved", "solve_failed", "time_limit", "reverified"} =>
          /\ model # None /\ results # None /\ solve_time # None
          /\ solver_calls = 1
    /\ (results # None \/ solver_calls > 0 \/ solve_time # None) => model # None
    /\ analyzer # None => results # None

\* solve() called before build_model()
C30_Witness ==
    /\ pc = "solve_raised"
    /\ durations = None
    /\ fa_pc = "done"

=============================================================================
